---- MODULE Spec2Model ----
(***************************************************************************)
(* Order fulfilment saga of the Dapr e-commerce demo: the order service,   *)
(* the payment service and the inventory service, their state stores and   *)
(* the pub/sub bus between them.                                           *)
(*                                                                         *)
(* Every HTTP handler is an async function: it runs atomically up to its   *)
(* next await on the state store / service invocation, so a handler is     *)
(* modelled as a thread that takes one step per await-delimited segment    *)
(* (state.get + the synchronous code after it; state.save + the publish    *)
(* that follows it).  The state store is used without etags, i.e. save is  *)
(* last-writer-wins on the whole record.                                   *)
(***************************************************************************)
EXTENDS Integers, Sequences, FiniteSets, Bags, TLC

VARIABLES
    inv,        \* inventory-store: productId -> InventoryRecord
    products,   \* product-store:   productId -> [stock, price]
    orders,     \* order-store:     orderId -> Order (NoOrder when absent)
    userOrders, \* order-store:     user-orders-<userId> -> list of order ids
    payments,   \* payment-store:   paymentId -> Payment (NoPayment when absent)
    bus,        \* order-pubsub: bag of published events awaiting delivery
    published,  \* history: bag of [topic, o] ever published
    threads,    \* bag of in-flight handlers (position + local variables)
    out,        \* the HTTP response sent by the last step (NoOut if none)
    calls,      \* history: number of client requests issued so far
    base,       \* history: inventory-store when the current batch began
    batch,      \* history: ledger calls issued since the store was last idle
    dups,       \* history: number of events the bus has delivered twice
    net         \* the .NET inventory service: its inventory-store and last response

vars == <<inv, products, orders, userOrders, payments, bus, published,
          threads, out, calls, base, batch, dups, net>>

----------------------------------------------------------------------------
(* Bounds of the model *)

MaxQty == 3          \* largest stock level / requested quantity explored
MaxThreads == 2      \* handlers in flight at the same time
MaxBatch == 2        \* ledger calls overlapping between two idle points
MaxCalls == 3        \* client requests per behaviour of the saga
MaxDups == 1         \* events the bus delivers a second time

Products == {1, 2}
OrderIds == {1}
PaymentIds == {1, 2}
Users == {1}

----------------------------------------------------------------------------
(* Inventory service: the ledger *)

InventoryRecord(q, r, l) == [quantity |-> q, reserved |-> r, reorderLevel |-> l]

\* The quantity of a request body is a JSON number: whole + half/2 with half
\* 0 or 1 (whole is its floor).  Records hold what parseInt made of it.
Number(w, h) == [whole |-> w, half |-> h]
Whole(k) == Number(k, 0)
\* parseInt(quantity): the digits before the decimal point (towards zero)
ParseInt(x) == IF x.whole < 0 /\ x.half = 1 THEN x.whole + 1 ELSE x.whole
\* a < x and x <= 0 of JavaScript, for an integer a and a request quantity x
Less(a, x) == a < x.whole \/ (a = x.whole /\ x.half = 1)
AtMostZero(x) == x.whole < 0 \/ x = Whole(0)

\* The response of a step: which endpoint answered (op) for which order or
\* product (key), at which of its segments (step), with what (result), and
\* the events that segment published.
NoOut == [op |-> "none", key |-> 0, step |-> "none", result |-> "none", events |-> {}]
Out(op, key, step, result, events) ==
    [op |-> op, key |-> key, step |-> step, result |-> result, events |-> events]

IdleThreads == EmptyBag

\* One in-flight handler: its position (pc) and its local variables.  ord and
\* irec are the handler's local copy of the order / inventory record it read,
\* already modified and ready to be saved; items and idx drive the per-item
\* loop of the inventory event handlers (idx = 0: a direct endpoint call);
\* pid is the payment a process-payment call is waiting for.  replay is
\* history: the handler was started by an order-shipped event that arrived
\* when its order was already shipped and fulfilled.
NoRecord == [quantity |-> 0, reserved |-> 0, reorderLevel |-> 0]
NoOrder ==
    [status |-> "none", userId |-> 0, items |-> <<>>, totalAmount |-> 0,
     paymentId |-> 0, cancellationReason |-> 0, statusNotes |-> <<>>]
NoPayment ==
    [orderId |-> 0, amount |-> 0, status |-> "none", error |-> FALSE, refundAmount |-> 0]

Thread(kind, pc, o, p, n, rec) ==
    [kind |-> kind, pc |-> pc, o |-> o, p |-> p, n |-> n, irec |-> rec,
     ord |-> NoOrder, items |-> <<>>, idx |-> 0, pid |-> 0, replay |-> FALSE,
     pay |-> NoPayment, list |-> <<>>]

OrderThread(kind, pc, o, ord) ==
    [kind |-> kind, pc |-> pc, o |-> o, p |-> 0, n |-> Whole(0), irec |-> NoRecord,
     ord |-> ord, items |-> <<>>, idx |-> 0, pid |-> 0, replay |-> FALSE,
     pay |-> NoPayment, list |-> <<>>]

LoopThread(op, o, items) ==
    [kind |-> op, pc |-> "get", o |-> o, p |-> 0, n |-> Whole(0), irec |-> NoRecord,
     ord |-> NoOrder, items |-> items, idx |-> 1, pid |-> 0, replay |-> FALSE,
     pay |-> NoPayment, list |-> <<>>]

Spawn(t) == threads (+) SetToBag({t})
Retire(t) == threads (-) SetToBag({t})
Replace(t, u) == (threads (-) SetToBag({t})) (+) SetToBag({u})
Running == BagToSet(threads)
NThreads == BagCardinality(threads)

\* if (!quantity || quantity <= 0) return 400
ValidQuantity(n) == ~(n = Whole(0) \/ AtMostZero(n))

\* A laxer guard: the request is compared with the stock on hand.
CanReserveStock(rec, n) == ~Less(rec.quantity, n)
\* reserve: available = quantity - reserved; if (available < quantity) 400
CanReserve(rec, n) == ~Less(rec.quantity - rec.reserved, n)
\* inventory.reserved += parseInt(quantity)
Reserved(rec, n) == [rec EXCEPT !.reserved = @ + ParseInt(n)]

\* A laxer guard: the request is compared with the stock on hand.
CanReleaseStock(rec, n) == ~Less(rec.quantity, n)
\* release: if (inventory.reserved < quantity) 400
CanRelease(rec, n) == ~Less(rec.reserved, n)
\* A different update: release also takes the units off the stock on hand.
ReleasedFromStock(rec, n) ==
    [rec EXCEPT !.quantity = @ - ParseInt(n), !.reserved = @ - ParseInt(n)]
\* inventory.reserved -= parseInt(quantity)
Released(rec, n) == [rec EXCEPT !.reserved = @ - ParseInt(n)]

\* fulfill: if (inventory.reserved < quantity) 400
CanFulfill(rec, n) == ~Less(rec.reserved, n)
\* A different update: fulfill forgets the stock on hand.
FulfilledReservedOnly(rec, n) == [rec EXCEPT !.reserved = @ - ParseInt(n)]
\* inventory.quantity -= parseInt(quantity); inventory.reserved -= parseInt(quantity)
Fulfilled(rec, n) ==
    [rec EXCEPT !.quantity = @ - ParseInt(n), !.reserved = @ - ParseInt(n)]

LedgerOps == {"reserve", "release", "fulfill"}

\* The business-rule check of endpoint op on the record it read.
Accepts(op, rec, n) ==
    CASE op = "reserve" -> CanReserve(rec, n)
      [] op = "release" -> CanRelease(rec, n)
      [] op = "fulfill" -> CanFulfill(rec, n)

\* The record endpoint op saves.
Applied(op, rec, n) ==
    CASE op = "reserve" -> Reserved(rec, n)
      [] op = "release" -> Released(rec, n)
      [] op = "fulfill" -> Fulfilled(rec, n)

\* The 400 body of a rejected ledger call.
Rejection(op) ==
    CASE op = "reserve" -> "InsufficientStock"
      [] op = "release" -> "OverRelease"
      [] op = "fulfill" -> "OverFulfill"

\* The topic a successful ledger call publishes last.
LedgerTopic(op) ==
    CASE op = "reserve" -> "inventory-reserved"
      [] op = "release" -> "inventory-released"
      [] op = "fulfill" -> "order-fulfilled"

\* /dapr/subscribe of the order service (payment-completed,
\* inventory-reserved) and of the inventory service (reserve-inventory,
\* order-cancelled, order-shipped): the application an event is delivered to.
Subscriber(topic) ==
    IF topic \in {"payment-completed", "inventory-reserved"}
    THEN "order-service" ELSE "inventory-service"

\* An event awaiting delivery to a subscribed application.
Msg(topic, o, p, items) ==
    [topic |-> topic, o |-> o, p |-> p, items |-> items, app |-> Subscriber(topic)]
\* ... and its copy for the payment service, which subscribes to
\* order-cancelled too and reads the orderId only.
ToPayment(topic, o) ==
    [topic |-> topic, o |-> o, p |-> 0, items |-> <<>>, app |-> "payment-service"]
Pub(topic, o, p) == [topic |-> topic, o |-> o, p |-> p]

\* daprClient.pubsub.publish of a set of events with subscribers (they join
\* the bus) and the history of everything published.
Publish(delivered, logged) ==
    /\ bus' = bus (+) SetToBag(delivered)
    /\ published' = published (+) SetToBag(logged)

\* History of the ledger calls since the inventory-store was last idle.
BatchStart(op, p, n) ==
    IF NThreads = 0
    THEN /\ base' = inv
         /\ batch' = <<[op |-> op, p |-> p, n |-> n]>>
    ELSE /\ base' = base
         /\ batch' = Append(batch, [op |-> op, p |-> p, n |-> n])

BatchRoom == NThreads = 0 \/ Len(batch) < MaxBatch

\* POST /inventory/:productId/{reserve,release,fulfill}, up to the first
\* await that follows the business-rule check: validate, state.get, check,
\* modify the local copy.
LedgerCallGet(op, p, n) ==
    /\ NThreads < MaxThreads
    /\ IF ~ValidQuantity(n)
       THEN /\ out' = Out(op, p, "get", "InvalidQuantity", {})
            /\ UNCHANGED threads
       ELSE IF ~Accepts(op, inv[p], n)
       THEN /\ out' = Out(op, p, "get", Rejection(op), {})
            /\ UNCHANGED threads
       ELSE /\ out' = Out(op, p, "get", "none", {})
            /\ threads' = Spawn(Thread(op, "save", 0, p, n, Applied(op, inv[p], n)))
    /\ UNCHANGED <<inv, products, orders, userOrders, payments, bus, published,
                   calls, dups, net>>

\* fulfill: if (inventory.quantity <= inventory.reorderLevel) publish reorder-needed
ReorderNeeded(rec) == rec.quantity <= rec.reorderLevel

LedgerEvents(op, o, p, rec) ==
    {Pub(LedgerTopic(op), o, p)} \cup
    (IF op = "fulfill" /\ ReorderNeeded(rec) THEN {Pub("reorder-needed", 0, p)} ELSE {})

\* ... the rest of the endpoint: state.save of the local copy, publish, 200.
LedgerCallSave(t) ==
    /\ t.kind \in LedgerOps /\ t.pc = "save" /\ t.idx = 0
    /\ inv' = [inv EXCEPT ![t.p] = t.irec]
    /\ threads' = Retire(t)
    /\ out' = Out(t.kind, t.p, "save", "OK", LedgerEvents(t.kind, t.o, t.p, t.irec))
    /\ UNCHANGED <<products, orders, userOrders, payments, bus, published,
                   calls, base, batch, dups, net>>

\* quantity !== undefined ? parseInt(quantity) : existingInventory.quantity
Adjusted(rec, hasQ, q, hasL, l) ==
    [rec EXCEPT !.quantity = IF hasQ THEN q ELSE @,
                !.reorderLevel = IF hasL THEN l ELSE @]

\* PUT /inventory/:productId on an existing record: state.get, build
\* updatedInventory from the copy.
AdjustStockGet(p, hasQ, q, hasL, l) ==
    /\ NThreads < MaxThreads
    /\ threads' = Spawn(Thread("adjust", "save", 0, p, Whole(0), Adjusted(inv[p], hasQ, q, hasL, l)))
    /\ out' = Out("adjust", p, "get", "none", {})
    /\ UNCHANGED <<inv, products, orders, userOrders, payments, bus, published,
                   calls, base, batch, dups, net>>

\* ... state.save, publish inventory-updated {productId, newStock}, 200.
AdjustStockSave(t) ==
    /\ t.kind = "adjust" /\ t.pc = "save"
    /\ inv' = [inv EXCEPT ![t.p] = t.irec]
    /\ threads' = Retire(t)
    /\ out' = Out("adjust", t.p, "save", "OK", {Pub("inventory-updated", 0, t.p)})
    /\ UNCHANGED <<products, orders, userOrders, payments, bus, published,
                   calls, base, batch, dups, net>>

----------------------------------------------------------------------------
(* The ledger on its own: clients call reserve / release / fulfill (and, in *)
(* SpecStock, PUT /inventory) concurrently on records created with any     *)
(* stock level up to MaxQty.                                               *)

\* sampleProducts: price (in cents) and stock of products '1' and '2'.
Price == [p \in Products |-> IF p = 1 THEN 249999 ELSE 99999]
SampleStock == [p \in Products |-> IF p = 1 THEN 10 ELSE 25]
SampleReorderLevel == [p \in Products |-> IF p = 1 THEN 5 ELSE 10]

InitRest ==
    /\ products = [p \in Products |-> [stock |-> SampleStock[p], price |-> Price[p]]]
    /\ orders = [o \in OrderIds |-> NoOrder]
    /\ userOrders = [u \in Users |-> <<>>]
    /\ payments = [i \in PaymentIds |-> NoPayment]
    /\ bus = EmptyBag
    /\ published = EmptyBag
    /\ threads = IdleThreads
    /\ out = NoOut
    /\ calls = 0
    /\ dups = 0
    /\ net = [items |-> [p \in Products |-> NoRecord], result |-> "none"]

\* The ledger specifications exercise one record, created by PUT /inventory
\* with any stock level up to MaxQty; calls on different products touch
\* different keys of the store.
LedgerProducts == {1}

\* The quantities clients send: whole numbers, and numbers with a fraction.
Wholes == {Whole(k) : k \in 0..MaxQty}
Numbers == Wholes \cup {Number(k, 1) : k \in 0..(MaxQty - 1)}

InitLedger ==
    /\ inv \in {[p \in Products |->
                   IF p \in LedgerProducts
                   THEN InventoryRecord(q, 0, 1)
                   ELSE InventoryRecord(SampleStock[p], 0, SampleReorderLevel[p])] :
                q \in 0..MaxQty}
    /\ base = inv
    /\ batch = <<>>
    /\ InitRest

\* A client calls a ledger endpoint; the history records the call.
LedgerCall ==
    \E op \in LedgerOps, p \in LedgerProducts, n \in Numbers :
        /\ BatchRoom
        /\ BatchStart(op, p, n)
        /\ LedgerCallGet(op, p, n)
LedgerSave == \E t \in Running : LedgerCallSave(t)

NextLedger == LedgerCall \/ LedgerSave
SpecLedger == InitLedger /\ [][NextLedger]_vars

\* The same with the administrative PUT /inventory/:productId.
StockCall ==
    \E op \in LedgerOps, p \in LedgerProducts, n \in Wholes :
        LedgerCallGet(op, p, n) /\ UNCHANGED <<base, batch, dups, net>>
AdjustStock ==
    \E p \in LedgerProducts, hasQ \in BOOLEAN, q \in 0..MaxQty, hasL \in BOOLEAN :
        AdjustStockGet(p, hasQ, q, hasL, 2)
AdjustSave == \E t \in Running : AdjustStockSave(t)

NextStock == StockCall \/ LedgerSave \/ AdjustStock \/ AdjustSave
SpecStock == InitLedger /\ [][NextStock]_vars

----------------------------------------------------------------------------
(* Order service *)

\* ORDER_STATUS
PENDING == "pending"
CONFIRMED == "confirmed"
PROCESSING == "processing"
SHIPPED == "shipped"
DELIVERED == "delivered"
CANCELLED == "cancelled"
ORDER_STATUS == {PENDING, CONFIRMED, PROCESSING, SHIPPED, DELIVERED, CANCELLED}

Item(p, q) == [productId |-> p, quantity |-> q]
\* The item lists clients order: one item, and two items of two products.
ItemLists == {<<Item(1, 2)>>, <<Item(1, 1), Item(2, 2)>>}
UnknownUser == 2
UnknownProduct == 3

\* check-availability: if (!product || product.status !== 'active') 404
KnownProduct(p) == p \in Products

\* check-availability: available = product.stock >= quantity
Available(p, q) == products[p].stock >= q

\* validatedItems.push({productId, quantity, unitPrice, totalPrice})
\* A line total that forgets the quantity.
ValidatedUnit(it) ==
    [productId |-> it.productId, quantity |-> it.quantity,
     unitPrice |-> products[it.productId].price,
     totalPrice |-> products[it.productId].price]
\* validatedItems.push({productId, quantity, unitPrice: product.price,
\* totalPrice: product.price * quantity})
Validated(it) ==
    [productId |-> it.productId, quantity |-> it.quantity,
     unitPrice |-> products[it.productId].price,
     totalPrice |-> products[it.productId].price * it.quantity]

RECURSIVE Sum(_, _)
Sum(items, i) == IF i = 0 THEN 0 ELSE items[i].totalPrice + Sum(items, i - 1)

FreeOrders == {o \in OrderIds : orders[o].status = "none"}
FreePayments == {i \in PaymentIds : payments[i].status = "none"}
Least(S) == CHOOSE x \in S : \A y \in S : x <= y

NewOrder(u, items) ==
    LET validated == [i \in DOMAIN items |-> Validated(items[i])] IN
    [status |-> PENDING, userId |-> u, items |-> validated,
     totalAmount |-> Sum(validated, Len(validated)),
     paymentId |-> 0, cancellationReason |-> 0, statusNotes |-> <<>>]

\* A validation loop without the availability check: only unknown products
\* stop it.
FailingUnknownOnly(it) == ~KnownProduct(it.productId)
\* The validation loop of POST /orders returns 400 at an item whose product
\* the product service does not know (the invocation throws on its 404) or
\* whose availability check answers available: false.
Failing(it) == ~KnownProduct(it.productId) \/ ~Available(it.productId, it.quantity)

\* for (const item of items): the first item at which the loop returns; 0
\* when it runs to its end.
FirstFailing(items) ==
    LET bad == {i \in DOMAIN items : Failing(items[i])}
    IN  IF bad = {} THEN 0 ELSE Least(bad)

\* POST /orders: 400 without items; validate the user and every item's
\* availability (400 at the first failing item, naming its product); save
\* the order, append its id to user-orders-<userId>, publish order-created.
CreateOrder(u, items) ==
    /\ calls < MaxCalls
    /\ calls' = calls + 1
    /\ LET i == FirstFailing(items) IN
       IF items = <<>>
       THEN /\ out' = Out("create", 0, "get", "InvalidRequest", {})
            /\ UNCHANGED <<orders, userOrders, published>>
       ELSE IF u \notin Users
       THEN /\ out' = Out("create", 0, "get", "InvalidUser", {})
            /\ UNCHANGED <<orders, userOrders, published>>
       ELSE IF i # 0
       THEN /\ out' = Out("create", items[i].productId, "get",
                          IF KnownProduct(items[i].productId)
                          THEN "InsufficientStock" ELSE "InvalidProduct", {})
            /\ UNCHANGED <<orders, userOrders, published>>
       ELSE /\ FreeOrders # {}
            /\ LET o == Least(FreeOrders) IN
               /\ orders' = [orders EXCEPT ![o] = NewOrder(u, items)]
               /\ userOrders' = [userOrders EXCEPT ![u] = Append(@, o)]
               /\ published' = published (+) SetToBag({Pub("order-created", o, 0)})
               /\ out' = Out("create", o, "save", "Created", {Pub("order-created", o, 0)})
    /\ UNCHANGED <<inv, products, payments, bus, threads, base, batch, dups, net>>

\* A laxer guard: the order is payable as long as no payment is linked to it.
CanPayUnpaid(ord) == ord.paymentId = 0
\* if (order.status !== ORDER_STATUS.PENDING) 400
CanPay(ord) == ord.status = PENDING

\* POST /orders/:id/process-payment up to the service invocation: state.get,
\* 404 if absent, 400 unless status is pending.
ProcessPaymentGet(o) ==
    /\ calls < MaxCalls
    /\ calls' = calls + 1
    /\ NThreads < MaxThreads
    /\ IF orders[o].status = "none"
       THEN /\ out' = Out("process-payment", o, "get", "NotFound", {})
            /\ UNCHANGED threads
       ELSE IF ~CanPay(orders[o])
       THEN /\ out' = Out("process-payment", o, "get", "InvalidState", {})
            /\ UNCHANGED threads
       ELSE /\ out' = Out("process-payment", o, "get", "none", {})
            /\ threads' = Spawn(OrderThread("process-payment", "invoke", o, orders[o]))
    /\ UNCHANGED <<inv, products, orders, userOrders, payments, bus, published, base, batch, dups, net>>

\* if (!orderId || !amount) 400; if (amount <= 0) 400
ValidAmount(amount) == ~(amount = 0 \/ amount <= 0)

\* Payment service, POST /payments/process: validate (a 400 makes the
\* invocation of the order service throw), save the payment record with
\* status processing.
PaymentStart(t) ==
    /\ t.kind = "process-payment" /\ t.pc = "invoke"
    /\ LET pid == Least(FreePayments) IN
       IF ~ValidAmount(t.ord.totalAmount)
       THEN /\ threads' = Replace(t, [t EXCEPT !.pc = "declined"])
            /\ out' = Out("payments/process", t.o, "get", "InvalidAmount", {})
            /\ UNCHANGED payments
       ELSE /\ FreePayments # {}
            /\ payments' = [payments EXCEPT ![pid] =
                   [NoPayment EXCEPT !.orderId = t.o, !.amount = t.ord.totalAmount,
                                     !.status = "processing"]]
            /\ threads' = Replace(t, [t EXCEPT !.pc = "gateway", !.pid = pid])
            /\ out' = Out("payments/process", t.o, "save", "none", {})
    /\ UNCHANGED <<inv, products, orders, userOrders, bus, published, calls, base, batch, dups, net>>

\* A catch block that does not touch the record.
SettledOnApprovalOnly(pay, approved) ==
    IF approved THEN [pay EXCEPT !.status = "completed"] ELSE pay
\* payment.status = COMPLETED / payment.status = FAILED; payment.errorMessage
\* = error.message
Settled(pay, approved) ==
    IF approved THEN [pay EXCEPT !.status = "completed"]
    ELSE [pay EXCEPT !.status = "failed", !.error = TRUE]

\* ... simulatePaymentGateway resolves or rejects; save the record as
\* completed / failed, publish payment-completed / payment-failed, answer
\* 200 / 400 to the order service.
PaymentGateway(t, approved) ==
    /\ t.kind = "process-payment" /\ t.pc = "gateway"
    /\ payments' = [payments EXCEPT ![t.pid] = Settled(@, approved)]
    /\ IF approved
       THEN /\ Publish({Msg("payment-completed", t.o, 0, <<>>)},
                       {Pub("payment-completed", t.o, 0)})
            /\ threads' = Replace(t, [t EXCEPT !.pc = "approved"])
            /\ out' = Out("payments/process", t.o, "gateway", "OK",
                          {Pub("payment-completed", t.o, 0)})
       ELSE /\ Publish({}, {Pub("payment-failed", t.o, 0)})
            /\ threads' = Replace(t, [t EXCEPT !.pc = "declined"])
            /\ out' = Out("payments/process", t.o, "gateway", "PaymentFailed",
                          {Pub("payment-failed", t.o, 0)})
    /\ UNCHANGED <<inv, products, orders, userOrders, calls, base, batch, dups, net>>

\* A confirmation that does not record the payment.
PaidUnrecorded(ord, pid) == [ord EXCEPT !.status = CONFIRMED]
\* order.status = CONFIRMED; order.paymentId = paymentResponse.paymentId
Paid(ord, pid) == [ord EXCEPT !.status = CONFIRMED, !.paymentId = pid]

\* ... process-payment after a 200 of the payment service: save the local
\* copy as confirmed, publish payment-processed, 200.
ProcessPaymentConfirm(t) ==
    /\ t.kind = "process-payment" /\ t.pc = "approved"
    /\ orders' = [orders EXCEPT ![t.o] = Paid(t.ord, t.pid)]
    /\ Publish({}, {Pub("payment-processed", t.o, 0)})
    /\ threads' = Retire(t)
    /\ out' = Out("process-payment", t.o, "save", "OK", {Pub("payment-processed", t.o, 0)})
    /\ UNCHANGED <<inv, products, userOrders, payments, calls, base, batch, dups, net>>

\* A different catch block: a declined payment cancels the order.
CancelledOnDecline(t) == [orders EXCEPT ![t.o].status = CANCELLED]
\* What the catch block of process-payment does to the order store.
AfterDecline(t) == orders

\* ... process-payment after a 400 of the payment service: the invocation
\* throws, the catch block answers 400 and touches nothing.
ProcessPaymentFail(t) ==
    /\ t.kind = "process-payment" /\ t.pc = "declined"
    /\ orders' = AfterDecline(t)
    /\ threads' = Retire(t)
    /\ out' = Out("process-payment", t.o, "catch", "PaymentFailed", {})
    /\ UNCHANGED <<inv, products, userOrders, payments, bus, published, calls, base, batch, dups, net>>

\* A laxer guard: any settled payment can be refunded.
CanRefundSettled(pay) == pay.status \in {"completed", "failed", "refunded"}
\* if (payment.status !== PAYMENT_STATUS.COMPLETED) 400
CanRefund(pay) == pay.status = "completed"

\* const refundAmount = amount ? parseFloat(amount) : payment.amount; the
\* request's amount is a JSON number or absent, and 0 is as falsy as absent.
RefundAmount(pay, given, amount) ==
    IF given /\ amount # 0 THEN amount ELSE pay.amount

\* if (refundAmount > payment.amount) 400
WithinPayment(pay, refundAmount) == ~(refundAmount > pay.amount)

\* payment.status = REFUNDED; payment.refundAmount = refundAmount
Refunded(pay, refundAmount) ==
    [pay EXCEPT !.status = "refunded", !.refundAmount = refundAmount]

\* POST /payments/:id/refund up to the gateway: state.get, 404 if absent, 400
\* unless the payment is completed, 400 if the amount exceeds the payment's.
RefundGet(i, given, amount) ==
    /\ calls < MaxCalls
    /\ calls' = calls + 1
    /\ NThreads < MaxThreads
    /\ LET pay == payments[i]
           refundAmount == RefundAmount(pay, given, amount) IN
       IF pay.status = "none"
       THEN /\ out' = Out("refund", i, "get", "NotFound", {})
            /\ UNCHANGED threads
       ELSE IF ~CanRefund(pay)
       THEN /\ out' = Out("refund", i, "get", "InvalidState", {})
            /\ UNCHANGED threads
       ELSE IF ~WithinPayment(pay, refundAmount)
       THEN /\ out' = Out("refund", i, "get", "InvalidAmount", {})
            /\ UNCHANGED threads
       ELSE /\ out' = Out("refund", i, "get", "none", {})
            /\ threads' = Spawn([OrderThread("refund", "gateway", pay.orderId, NoOrder)
                                  EXCEPT !.pid = i, !.n = Whole(refundAmount),
                                         !.pay = pay])
    /\ UNCHANGED <<inv, products, orders, userOrders, payments, bus, published, base, batch, dups, net>>

\* ... the simulated refund gateway resolves (save the local copy as refunded,
\* publish payment-refunded, 200) or rejects (400, nothing saved).
RefundGateway(t, success) ==
    /\ t.kind = "refund" /\ t.pc = "gateway"
    /\ threads' = Retire(t)
    /\ IF success
       THEN /\ payments' = [payments EXCEPT ![t.pid] = Refunded(t.pay, t.n.whole)]
            /\ Publish({}, {Pub("payment-refunded", t.o, 0)})
            /\ out' = Out("refund", t.pid, "save", "OK", {Pub("payment-refunded", t.o, 0)})
       ELSE /\ out' = Out("refund", t.pid, "gateway", "RefundFailed", {})
            /\ UNCHANGED <<payments, bus, published>>
    /\ UNCHANGED <<inv, products, orders, userOrders, calls, base, batch, dups, net>>

\* The tracking middleware of /payments/process is registered after the
\* route, whose handler answers without calling next(): it never runs, and
\* the list under order-payments-<orderId> stays absent (|| []).
OrderPayments(o) == <<>>

\* The completed payments the handler of order-cancelled finds for an order.
ToRefund(o) ==
    {OrderPayments(o)[k] : k \in {j \in 1..Len(OrderPayments(o)) :
                                    payments[OrderPayments(o)[j]].status = "completed"}}

\* Payment service, POST /events/order-cancelled: read the order's payment
\* list; for each completed payment in it "Initiating automatic refund" is
\* logged ("for demo purposes, we'll just log it"); 200.
PaymentOrderCancelled(m) ==
    /\ m.topic = "order-cancelled" /\ m.app = "payment-service"
    /\ BagIn(m, bus)
    /\ bus' = bus (-) SetToBag({m})
    /\ out' = Out("payment/order-cancelled", m.o, "get", "none", ToRefund(m.o))
    /\ UNCHANGED <<inv, products, orders, userOrders, payments, published, threads,
                   calls, base, batch, dups, net>>

\* A laxer guard: only shipped orders are refused.
CanCancelUnshipped(ord) == ord.status # SHIPPED
\* DELETE /orders/:id: if ([SHIPPED, DELIVERED].includes(order.status)) 400
CanCancel(ord) == ord.status \notin {SHIPPED, DELIVERED}

\* order.status = CANCELLED; cancelledAt = now; cancellationReason = reason
Cancelled(ord, reason) == [ord EXCEPT !.status = CANCELLED, !.cancellationReason = reason]

\* DELETE /orders/:id up to the save: state.get, 404, 400 for shipped or
\* delivered orders, else mark the local copy cancelled.  The reason stands
\* for the request's reason and its cancelledAt: each request brings its own.
CancelOrderGet(o) ==
    /\ calls < MaxCalls
    /\ calls' = calls + 1
    /\ NThreads < MaxThreads
    /\ IF orders[o].status = "none"
       THEN /\ out' = Out("cancel", o, "get", "NotFound", {})
            /\ UNCHANGED threads
       ELSE IF ~CanCancel(orders[o])
       THEN /\ out' = Out("cancel", o, "get", "InvalidState", {})
            /\ UNCHANGED threads
       ELSE /\ out' = Out("cancel", o, "get", "none", {})
            /\ threads' = Spawn(OrderThread("cancel", "save", o, Cancelled(orders[o], calls')))
    /\ UNCHANGED <<inv, products, orders, userOrders, payments, bus, published, base, batch, dups, net>>

\* ... save the local copy, publish order-cancelled {orderId, order, reason}.
CancelOrderSave(t) ==
    /\ t.kind = "cancel" /\ t.pc = "save"
    /\ orders' = [orders EXCEPT ![t.o] = t.ord]
    /\ Publish({Msg("order-cancelled", t.o, 0, t.ord.items),
                ToPayment("order-cancelled", t.o)},
               {Pub("order-cancelled", t.o, 0)})
    /\ threads' = Retire(t)
    /\ out' = Out("cancel", t.o, "save", "OK", {Pub("order-cancelled", t.o, 0)})
    /\ UNCHANGED <<inv, products, userOrders, payments, calls, base, batch, dups, net>>

\* order.status = status; if (notes) statusNotes.push({status, notes, ...})
Updated(ord, status, notes) ==
    [ord EXCEPT !.status = status,
                !.statusNotes = IF notes THEN Append(@, status) ELSE @]

\* PATCH /orders/:id/status up to the save: 400 for a status outside
\* ORDER_STATUS, state.get, 404, else overwrite status in the local copy.
UpdateStatusGet(o, status, notes) ==
    /\ calls < MaxCalls
    /\ calls' = calls + 1
    /\ NThreads < MaxThreads
    /\ IF status \notin ORDER_STATUS
       THEN /\ out' = Out("status", o, "get", "InvalidStatus", {})
            /\ UNCHANGED threads
       ELSE IF orders[o].status = "none"
       THEN /\ out' = Out("status", o, "get", "NotFound", {})
            /\ UNCHANGED threads
       ELSE /\ out' = Out("status", o, "get", "none", {})
            /\ threads' = Spawn(OrderThread("status", "save", o, Updated(orders[o], status, notes)))
    /\ UNCHANGED <<inv, products, orders, userOrders, payments, bus, published, base, batch, dups, net>>

\* ... save the local copy, publish order-status-updated.
UpdateStatusSave(t) ==
    /\ t.kind = "status" /\ t.pc = "save"
    /\ orders' = [orders EXCEPT ![t.o] = t.ord]
    /\ Publish({}, {Pub("order-status-updated", t.o, 0)})
    /\ threads' = Retire(t)
    /\ out' = Out("status", t.o, "save", "OK", {Pub("order-status-updated", t.o, 0)})
    /\ UNCHANGED <<inv, products, userOrders, payments, calls, base, batch, dups, net>>

\* The two event handlers of the order service advance an order from one
\* status to the next: payment-completed confirmed -> processing,
\* inventory-reserved processing -> shipped.
Expects(topic) == IF topic = "payment-completed" THEN CONFIRMED ELSE PROCESSING
Advances(topic) == IF topic = "payment-completed" THEN PROCESSING ELSE SHIPPED
Announces(topic) == IF topic = "payment-completed" THEN "reserve-inventory" ELSE "order-shipped"

\* if (order && order.status === <expected>)
ShouldAdvance(ord, topic) == ord.status = Expects(topic)

\* POST /events/payment-completed and /events/inventory-reserved up to the
\* save: state.get; when the order has the expected status, advance the
\* local copy; otherwise acknowledge the event and do nothing.
OrderEventGet(m) ==
    /\ m.topic \in {"payment-completed", "inventory-reserved"}
    /\ BagIn(m, bus)
    /\ NThreads < MaxThreads
    /\ bus' = bus (-) SetToBag({m})
    /\ IF ShouldAdvance(orders[m.o], m.topic)
       THEN threads' = Spawn(OrderThread(m.topic, "save", m.o,
                                 [orders[m.o] EXCEPT !.status = Advances(m.topic)]))
       ELSE UNCHANGED threads
    /\ out' = Out(m.topic, m.o, "get", "none", {})
    /\ UNCHANGED <<inv, products, orders, userOrders, payments, published, calls, base, batch, dups, net>>

\* ... save the local copy; publish reserve-inventory {orderId, items} /
\* order-shipped {orderId, order}; 200.
OrderEventSave(t) ==
    /\ t.kind \in {"payment-completed", "inventory-reserved"} /\ t.pc = "save"
    /\ orders' = [orders EXCEPT ![t.o] = t.ord]
    /\ Publish({Msg(Announces(t.kind), t.o, 0, t.ord.items)},
               {Pub(Announces(t.kind), t.o, 0)})
    /\ threads' = Retire(t)
    /\ out' = Out(t.kind, t.o, "save", "OK", {Pub(Announces(t.kind), t.o, 0)})
    /\ UNCHANGED <<inv, products, userOrders, payments, calls, base, batch, dups, net>>

----------------------------------------------------------------------------
(* Inventory service: event handlers *)

\* The ledger endpoint each subscribed topic calls for every item.
LedgerOpOf(topic) ==
    CASE topic = "reserve-inventory" -> "reserve"
      [] topic = "order-cancelled" -> "release"
      [] topic = "order-shipped" -> "fulfill"

\* History: order o is shipped and order-fulfilled has been published for
\* each of its items.
AlreadyFulfilled(o) ==
    /\ orders[o].status = SHIPPED
    /\ \A i \in DOMAIN orders[o].items :
          BagIn(Pub("order-fulfilled", o, orders[o].items[i].productId), published)

\* POST /events/{reserve-inventory, order-cancelled, order-shipped}: the
\* handler starts its loop over the items of the event.
InventoryEvent(m) ==
    /\ m.topic \in {"reserve-inventory", "order-cancelled", "order-shipped"}
    /\ m.app = "inventory-service"
    /\ BagIn(m, bus)
    /\ NThreads < MaxThreads
    /\ bus' = bus (-) SetToBag({m})
    /\ threads' = IF m.items = <<>> THEN threads
                  ELSE Spawn([LoopThread(LedgerOpOf(m.topic), m.o, m.items)
                                EXCEPT !.replay = (m.topic = "order-shipped"
                                                   /\ AlreadyFulfilled(m.o))])
    /\ out' = Out(m.topic, m.o, "get", "none", {})
    /\ UNCHANGED <<inv, products, orders, userOrders, payments, published, calls, base, batch, dups, net>>

\* A loop that ends with its first item.
NextItemNone(t) == Retire(t)
\* After an item's endpoint call returned (ok or not): the next item, or 200.
NextItem(t) ==
    IF t.idx < Len(t.items)
    THEN Replace(t, [t EXCEPT !.idx = @ + 1, !.pc = "get", !.irec = NoRecord])
    ELSE Retire(t)

\* for (const item of items): fetch the endpoint for the item, which reads
\* the record and checks it; a failed call is logged and the loop goes on.
ItemGet(t) ==
    /\ t.kind \in LedgerOps /\ t.idx > 0 /\ t.pc = "get"
    /\ LET p == t.items[t.idx].productId
           n == Whole(t.items[t.idx].quantity)
       IN  IF ValidQuantity(n) /\ Accepts(t.kind, inv[p], n)
           THEN /\ threads' = Replace(t, [t EXCEPT !.pc = "save", !.p = p, !.n = n,
                                                   !.irec = Applied(t.kind, inv[p], n)])
                /\ out' = Out(t.kind, p, "get", "none", {})
           ELSE /\ threads' = NextItem(t)
                /\ out' = Out(t.kind, p, "get", Rejection(t.kind), {})
    /\ UNCHANGED <<inv, products, orders, userOrders, payments, bus, published,
                   calls, base, batch, dups, net>>

\* The events of a ledger call that have a subscriber in these services.
Subscribed(op, o, p) ==
    IF op = "reserve" THEN {Msg("inventory-reserved", o, p, <<>>)} ELSE {}

\* ... the endpoint saves the record and publishes its events.
ItemSave(t) ==
    /\ t.kind \in LedgerOps /\ t.idx > 0 /\ t.pc = "save"
    /\ inv' = [inv EXCEPT ![t.p] = t.irec]
    /\ Publish(Subscribed(t.kind, t.o, t.p), LedgerEvents(t.kind, t.o, t.p, t.irec))
    /\ threads' = NextItem(t)
    /\ out' = Out(t.kind, t.p, "save", "OK", LedgerEvents(t.kind, t.o, t.p, t.irec))
    /\ UNCHANGED <<products, orders, userOrders, payments, calls, base, batch, dups, net>>

----------------------------------------------------------------------------
(* The saga: clients create, pay and cancel orders; events are delivered   *)
(* in any order; handlers interleave at their awaits.                      *)

InitSaga ==
    /\ inv = [p \in Products |->
                 InventoryRecord(SampleStock[p], 0, SampleReorderLevel[p])]
    /\ base = inv
    /\ batch = <<>>
    /\ InitRest

Create == \E u \in Users \cup {UnknownUser}, items \in ItemLists : CreateOrder(u, items)
Pay == \E o \in OrderIds : ProcessPaymentGet(o)
PayStart == \E t \in Running : PaymentStart(t)
PayGateway == \E t \in Running, approved \in BOOLEAN : PaymentGateway(t, approved)
PayConfirm == \E t \in Running : ProcessPaymentConfirm(t)
PayFail == \E t \in Running : ProcessPaymentFail(t)
Cancel == \E o \in OrderIds : CancelOrderGet(o)
CancelSave == \E t \in Running : CancelOrderSave(t)
OrderEvent == \E m \in BagToSet(bus) : OrderEventGet(m)
OrderEventDone == \E t \in Running : OrderEventSave(t)
InvReserve ==
    \E m \in BagToSet(bus) : m.topic = "reserve-inventory" /\ InventoryEvent(m)
InvCompensate ==
    \E m \in BagToSet(bus) : m.topic # "reserve-inventory" /\ InventoryEvent(m)
InvItemGet == \E t \in Running : ItemGet(t)
InvItemSave == \E t \in Running : ItemSave(t)
SetStatus ==
    \E o \in OrderIds, status \in ORDER_STATUS \cup {"unknown"}, notes \in BOOLEAN :
        UpdateStatusGet(o, status, notes)
SetStatusSave == \E t \in Running : UpdateStatusSave(t)

\* The forward path of the saga: create, pay, reserve, ship, and cancel.
\* order-cancelled and order-shipped events stay on the bus (their delivery
\* to the inventory service is delayed).
NextSaga ==
    \/ Create \/ Pay \/ PayStart \/ PayGateway \/ PayConfirm \/ PayFail
    \/ Cancel \/ CancelSave \/ OrderEvent \/ OrderEventDone
    \/ InvReserve \/ InvItemGet \/ InvItemSave
SpecSaga == InitSaga /\ [][NextSaga]_vars

\* ... with the payment service's refund endpoint and its subscription to
\* order-cancelled.
\* The amounts clients ask to refund: below, at and above zero, the whole
\* payment and more than it.
RefundAmounts(i) == {0 - 1, 0, 1, payments[i].amount, payments[i].amount + 1}
RefundCall ==
    \E i \in PaymentIds, given \in BOOLEAN :
        \E amount \in RefundAmounts(i) : RefundGet(i, given, amount)
RefundDone == \E t \in Running, success \in BOOLEAN : RefundGateway(t, success)
PayCancelled == \E m \in BagToSet(bus) : PaymentOrderCancelled(m)
NextPay == NextSaga \/ RefundCall \/ RefundDone \/ PayCancelled
SpecPay == InitSaga /\ [][NextPay]_vars

\* ... with the administrative status override.
Next == NextSaga \/ SetStatus \/ SetStatusSave
Spec == InitSaga /\ [][Next]_vars

\* ... with the inventory service's reactions to order-cancelled (release)
\* and order-shipped (fulfill).
NextFull == Next \/ InvCompensate
SpecFull == InitSaga /\ [][NextFull]_vars

\* Product service, POST /events/inventory-updated {productId, newStock}:
\* the stock of the product record becomes newStock.
InventoryUpdated(p, newStock) ==
    /\ KnownProduct(p)
    /\ products' = [products EXCEPT ![p].stock = newStock]
    /\ out' = Out("inventory-updated", p, "save", "OK", {})
    /\ UNCHANGED <<inv, orders, userOrders, payments, bus, published, threads,
                   calls, base, batch, dups, net>>

\* What clients put into the body of POST /orders: no item, one or two;
\* known and unknown products; quantities below, at and above zero and one
\* more than the sample stock of product 1.
OrderQuantities == {0 - 1, 0, 2, SampleStock[1] + 1}
RequestItems ==
    {Item(p, q) : p \in LedgerProducts \cup {UnknownProduct}, q \in OrderQuantities}
Requests ==
    {<<>>} \cup {<<a>> : a \in RequestItems}
           \cup {<<a, b>> : a \in RequestItems, b \in RequestItems}

CreateAny ==
    \E u \in Users \cup {UnknownUser}, items \in Requests : CreateOrder(u, items)
StockUpdated ==
    \E p \in LedgerProducts, newStock \in 0..MaxQty : InventoryUpdated(p, newStock)

\* Order creation against a product catalogue whose stock follows the
\* inventory-updated events.
NextCreate == CreateAny \/ StockUpdated
SpecCreate == InitSaga /\ [][NextCreate]_vars

\* At-least-once delivery: the bus delivers an event that awaits delivery
\* once more.
Redeliver(m) ==
    /\ BagIn(m, bus)
    /\ dups < MaxDups
    /\ dups' = dups + 1
    /\ bus' = bus (+) SetToBag({m})
    /\ UNCHANGED <<inv, products, orders, userOrders, payments, published,
                   threads, out, calls, base, batch, net>>

\* The inventory as other orders have left it: up to MaxQty units of the
\* ledger product are reserved for them.
InitReplay ==
    /\ inv \in {[p \in Products |->
                   InventoryRecord(SampleStock[p],
                                   IF p \in LedgerProducts THEN r ELSE 0,
                                   SampleReorderLevel[p])] : r \in 0..MaxQty}
    /\ base = inv
    /\ batch = <<>>
    /\ InitRest

ForwardTopics == {"payment-completed", "reserve-inventory", "inventory-reserved"}

Dup == \E m \in BagToSet(bus) : m.topic \in ForwardTopics /\ Redeliver(m)
Replay == \E m \in BagToSet(bus) : m.topic = "order-shipped" /\ Redeliver(m)

\* The forward path of the saga under at-least-once delivery.
NextDup == NextSaga \/ Dup
SpecDup == InitReplay /\ [][NextDup]_vars

\* The whole saga with order-shipped delivered more than once.
NextReplay == NextFull \/ Replay
SpecReplay == InitReplay /\ [][NextReplay]_vars

----------------------------------------------------------------------------
(* Claims about the ledger *)

\* C1: in every reachable state, after any sequence of Reserve, Release,
\* Fulfill and AdjustStock calls, every InventoryRecord satisfies
\* 0 <= reserved <= quantity.
C1_ReservedWithinQuantity ==
    \A p \in Products : 0 <= inv[p].reserved /\ inv[p].reserved <= inv[p].quantity

\* One ledger call run on its own against a store.
SerialCall(store, c) ==
    IF ValidQuantity(c.n) /\ Accepts(c.op, store[c.p], c.n)
    THEN [store EXCEPT ![c.p] = Applied(c.op, store[c.p], c.n)]
    ELSE store

\* The stores that running the calls todo (indices of cs), one after the
\* other in some order, can leave.
RECURSIVE SerialResults(_, _, _)
SerialResults(store, cs, todo) ==
    IF todo = {} THEN {store}
    ELSE UNION {SerialResults(SerialCall(store, cs[i]), cs, todo \ {i}) : i \in todo}

\* C2: Reserve, Release and Fulfill on one productId are serialized: when
\* the calls issued since the store was last idle have all returned, the
\* store equals the result of running them in some serial order.
C2_Serialized ==
    NThreads = 0 => inv \in SerialResults(base, batch, DOMAIN batch)

\* The step is the first segment of a client's call of ledger endpoint op
\* on product p with quantity n.
IsCall(op, p, n) ==
    /\ out'.op = op /\ out'.step = "get" /\ out'.key = p
    /\ batch' # <<>> /\ batch'[Len(batch')] = [op |-> op, p |-> p, n |-> n]

\* The step is the last segment of ledger call t, which ran on its own: no
\* other call was in flight between its first segment and this one.
SoleSave(op, t) ==
    /\ t.kind = op /\ t.pc = "save" /\ t.idx = 0
    /\ NThreads = 1 /\ Len(batch) = 1
    /\ threads' = Retire(t)

\* A sole Reserve(p, n) has just returned successfully and nothing has
\* happened since: base is the store as it was before that Reserve.
JustReserved(p, n) ==
    /\ NThreads = 0 /\ batch = <<[op |-> "reserve", p |-> p, n |-> n]>>
    /\ out.op = "reserve" /\ out.step = "save" /\ out.result = "OK"

AtMost(n, a) == n.whole < a \/ (n.whole = a /\ n.half = 0)

NoLedgerEffect ==
    /\ inv' = inv /\ threads' = threads /\ out'.events = {}
    /\ bus' = bus /\ published' = published

\* C16: a Reserve of more than quantity - reserved, a Release of more than
\* reserved and a Fulfill of more than reserved are rejected with
\* InsufficientStock, OverRelease and OverFulfill; each leaves the record
\* unchanged, publishes no event and leaves nothing running.
C16_RejectionLeavesRecord ==
    [][\A p \in LedgerProducts, n \in Numbers :
          /\ (IsCall("reserve", p, n) /\ ~AtMostZero(n)
                  /\ ~AtMost(n, inv[p].quantity - inv[p].reserved))
                 => (out'.result = "InsufficientStock" /\ NoLedgerEffect)
          /\ (IsCall("release", p, n) /\ ~AtMostZero(n) /\ ~AtMost(n, inv[p].reserved))
                 => (out'.result = "OverRelease" /\ NoLedgerEffect)
          /\ (IsCall("fulfill", p, n) /\ ~AtMostZero(n) /\ ~AtMost(n, inv[p].reserved))
                 => (out'.result = "OverFulfill" /\ NoLedgerEffect)]_vars

\* A Release of more than is reserved was just rejected while stock is
\* reserved.
C16_Witness ==
    /\ out.op = "release" /\ out.step = "get" /\ out.result = "OverRelease"
    /\ inv[out.key].reserved > 0

C18_ReorderOncePerCrossing ==
    [][\A t \in Running :
          SoleSave("fulfill", t)
              => (Pub("reorder-needed", 0, t.p) \in out'.events
                    <=> /\ inv[t.p].quantity > inv[t.p].reorderLevel
                        /\ inv'[t.p].quantity <= inv'[t.p].reorderLevel)]_vars

----------------------------------------------------------------------------
(* Claims about the order saga *)

\* The edges of the order state machine (spec section 4.1).
Edges ==
    {<<"none", PENDING>>, <<PENDING, CONFIRMED>>, <<CONFIRMED, PROCESSING>>,
     <<PROCESSING, SHIPPED>>, <<PENDING, CANCELLED>>, <<CONFIRMED, CANCELLED>>,
     <<PROCESSING, CANCELLED>>}

\* C3: without UpdateStatus, under every interleaving of CreateOrder,
\* ProcessPayment, the two event handlers and CancelOrder, the persisted
\* status of an order changes only along the edges of the state machine.
C3_StatusEdges ==
    [][\A o \in OrderIds :
          orders'[o].status # orders[o].status
              => <<orders[o].status, orders'[o].status>> \in Edges]_vars

\* C4: cancelled and delivered are absorbing: no operation of the order
\* service changes the status of an order that is cancelled or delivered.
C4_TerminalAbsorbing ==
    [][\A o \in OrderIds :
          orders[o].status \in {CANCELLED, DELIVERED}
              => orders'[o].status = orders[o].status]_vars

\* The step is the first segment of a client's call of endpoint op on order o.
Calls(op, o) ==
    /\ calls' = calls + 1
    /\ out'.op = op /\ out'.step = "get" /\ out'.key = o

\* The step changes nothing but the response and the request count, and
\* leaves no handler behind that could change anything later.
NoEffect ==
    /\ orders' = orders /\ userOrders' = userOrders /\ payments' = payments
    /\ inv' = inv /\ products' = products
    /\ bus' = bus /\ published' = published /\ out'.events = {}
    /\ threads' = threads

\* C5: CancelOrder on an order that is shipped or delivered fails with
\* InvalidState and has no effect: the order is unchanged, no event is
\* published, no inventory record or payment changes.
C5_CancelShippedRejected ==
    [][\A o \in OrderIds :
          (Calls("cancel", o) /\ orders[o].status \in {SHIPPED, DELIVERED})
              => (out'.result = "InvalidState" /\ NoEffect)]_vars

\* A cancel of a shipped order was just rejected.
C5_Witness ==
    /\ out.op = "cancel" /\ out.result = "InvalidState"
    /\ orders[out.key].status = SHIPPED

\* C6: CancelOrder on an order that is already cancelled fails with
\* InvalidState, so it neither rewrites the reason nor publishes a second
\* order-cancelled event.
C6_SecondCancelRejected ==
    [][\A o \in OrderIds :
          (Calls("cancel", o) /\ orders[o].status = CANCELLED)
              => (out'.result = "InvalidState" /\ NoEffect)]_vars

\* C7: ProcessPayment on an order whose status is not pending fails with
\* InvalidState before the payment service is called: no payment record,
\* no event, order unchanged.
C7_PayNonPendingRejected ==
    [][\A o \in OrderIds :
          (Calls("process-payment", o) /\ orders[o].status \notin {"none", PENDING})
              => (out'.result = "InvalidState" /\ NoEffect)]_vars

\* A payment of a confirmed order was just rejected.
C7_Witness ==
    /\ out.op = "process-payment" /\ out.result = "InvalidState"
    /\ orders[out.key].status = CONFIRMED

\* The step is the payment service settling t's payment as failed.
Declines(t) ==
    /\ t.kind = "process-payment" /\ t.pc = "gateway"
    /\ threads' = Replace(t, [t EXCEPT !.pc = "declined"])

\* The step is process-payment answering its caller after the decline.
Fails(t) ==
    /\ t.kind = "process-payment" /\ t.pc = "declined"
    /\ threads' = Retire(t)

\* C8: when the gateway declines, the payment record ends failed and
\* payment-failed is published; the order service answers a failure,
\* leaves the order as it is (not cancelled: still pending and payable
\* unless another request changed it) and publishes nothing.
C8_DeclineKeepsPending ==
    [][\A t \in Running :
          /\ Declines(t) =>
                /\ orders' = orders
                /\ payments'[t.pid].status = "failed"
                /\ out'.events = {Pub("payment-failed", t.o, 0)}
          /\ Fails(t) =>
                /\ orders' = orders /\ payments' = payments
                /\ bus' = bus /\ published' = published /\ out'.events = {}
                /\ payments[t.pid].status = "failed"
                /\ BagIn(Pub("payment-failed", t.o, 0), published)
                /\ out'.op = "process-payment" /\ out'.result = "PaymentFailed"
                /\ (orders[t.o] = t.ord => CanPay(orders'[t.o]))]_vars

\* After a declined payment of an order has been answered, another
\* ProcessPayment of the same order has just been accepted.
C8_Witness ==
    /\ out.op = "process-payment" /\ out.step = "get" /\ out.result = "none"
    /\ NThreads = 1
    /\ \E i \in PaymentIds :
          payments[i].status = "failed" /\ payments[i].orderId = out.key

\* Nothing is in flight for order o: no handler runs and none of the events
\* that drive it forward awaits delivery.
Quiet(o) ==
    /\ NThreads = 0
    /\ \A m \in BagToSet(bus) :
          m.o = o => m.topic \notin {"payment-completed", "reserve-inventory",
                                     "inventory-reserved"}

\* C9: once ProcessPayment has succeeded for an order that is not cancelled
\* and every event has been delivered, the order has reached processing (or
\* beyond) and reserve-inventory has been published for it.
C9_PaidOrderProceeds ==
    \A o \in OrderIds :
        (Quiet(o) /\ orders[o].paymentId # 0 /\ orders[o].status # CANCELLED)
            => /\ orders[o].status \in {PROCESSING, SHIPPED}
               /\ BagIn(Pub("reserve-inventory", o, 0), published)

\* C10: an order is shipped by the inventory-reserved handler only after
\* Reserve has succeeded for every item of the order.
C10_ShippedAfterAllReserved ==
    \A o \in OrderIds :
        orders[o].status = SHIPPED
            => \A i \in DOMAIN orders[o].items :
                  BagIn(Pub("inventory-reserved", o, orders[o].items[i].productId),
                        published)

----------------------------------------------------------------------------
(* Claims about duplicate deliveries *)

\* The step is a fulfill of one item saved by a handler that an
\* order-shipped event started when its order was already shipped and
\* fulfilled.
ReplaySave(t) ==
    /\ t.kind = "fulfill" /\ t.idx > 0 /\ t.pc = "save" /\ t.replay
    /\ threads' = NextItem(t)

\* C11: replaying order-shipped for an order that is already shipped and
\* fulfilled is a no-op: no inventory record changes and nothing is
\* published (no order-fulfilled, no reorder-needed alert), whatever other
\* orders have reserved.
C11_ReplayShippedNoOp ==
    [][\A t \in Running :
          ReplaySave(t) => (inv' = inv /\ out'.events = {})]_vars

\* The step is the delivery of event m to the order service.
Delivers(m) ==
    /\ m.topic \in {"payment-completed", "inventory-reserved"}
    /\ bus' = bus (-) SetToBag({m})
    /\ out'.op = m.topic /\ out'.step = "get"

\* C12: under at-least-once delivery the order service publishes at most
\* one reserve-inventory and at most one order-shipped per order, and a
\* delivery that finds the order in another status than the one it expects
\* changes nothing and publishes nothing.
C12_AtMostOncePerOrder ==
    /\ [](\A o \in OrderIds :
             /\ CopiesIn(Pub("reserve-inventory", o, 0), published) <= 1
             /\ CopiesIn(Pub("order-shipped", o, 0), published) <= 1)
    /\ [][\A m \in BagToSet(bus) :
             (Delivers(m) /\ orders[m.o].status # Expects(m.topic))
                 => /\ orders' = orders /\ published' = published
                    /\ threads' = threads /\ out'.events = {}]_vars

\* The units of product p that the items order.
RECURSIVE Ordered(_, _, _)
Ordered(items, i, p) ==
    IF i = 0 THEN 0
    ELSE (IF items[i].productId = p THEN items[i].quantity ELSE 0)
         + Ordered(items, i - 1, p)

\* No delivery of reserve-inventory for order o is pending or being handled.
ReserveSettled(o) ==
    /\ \A m \in BagToSet(bus) : ~(m.topic = "reserve-inventory" /\ m.o = o)
    /\ \A t \in Running : ~(t.kind = "reserve" /\ t.o = o)

\* C13: the reserve-inventory handler is idempotent per order: when the one
\* reserve-inventory event of an order has been delivered, however often,
\* reserved of each product has increased by the ordered quantity exactly
\* once.
C13_ReserveOncePerOrder ==
    \A o \in OrderIds :
        (CopiesIn(Pub("reserve-inventory", o, 0), published) = 1 /\ ReserveSettled(o))
            => \A p \in Products :
                  inv[p].reserved
                      = base[p].reserved + Ordered(orders[o].items, Len(orders[o].items), p)

----------------------------------------------------------------------------
(* Claims about order creation *)

\* The item asks for an unknown product or for more than the stock the
\* product service reports.
Unorderable(it) ==
    IF it.productId \in Products
    THEN it.quantity > products[it.productId].stock
    ELSE TRUE

\* The request must fail validation.
Invalid(u, items) ==
    u \notin Users \/ \E i \in DOMAIN items : Unorderable(items[i])

\* The product of the first item that fails validation.
FirstUnorderable(items) ==
    items[Least({i \in DOMAIN items : Unorderable(items[i])})].productId

\* C19: when CreateOrder fails validation (unknown user, unknown product,
\* or an item asking for more than the stock the availability check
\* reports), nothing is persisted and nothing is published: no order
\* record, no entry in the user's order index, no order-created event; the
\* rejection names the first failing item.
C19_RejectedCreatePersistsNothing ==
    [][\A u \in Users \cup {UnknownUser}, items \in Requests :
          (CreateOrder(u, items) /\ Invalid(u, items))
              => /\ out'.result \in {"InvalidRequest", "InvalidUser", "InvalidProduct",
                                      "InsufficientStock"}
                 /\ (u \in Users => out'.key = FirstUnorderable(items))
                 /\ orders' = orders /\ userOrders' = userOrders
                 /\ published' = published /\ bus' = bus
                 /\ out'.events = {}]_vars

\* An order for more than the stock has just been rejected and the order
\* store and the user's order index are empty.
C19_Witness ==
    /\ out.op = "create" /\ out.result = "InsufficientStock"
    /\ \A o \in OrderIds : orders[o] = NoOrder
    /\ \A u \in Users : userOrders[u] = <<>>
    /\ published = EmptyBag

\* C20: CreateOrder rejects, without persisting an order, every request in
\* which some item has quantity <= 0.
C20_NonPositiveQuantityRejected ==
    [][\A u \in Users \cup {UnknownUser}, items \in Requests :
          (CreateOrder(u, items) /\ \E i \in DOMAIN items : items[i].quantity <= 0)
              => (out'.result # "Created" /\ orders' = orders)]_vars

\* Orders for about as many units of product 1 as the sample data stock,
\* alone or with two units of product 2 before or after them.
NearStock ==
    {<<Item(1, q)>> : q \in (SampleStock[1] - MaxQty)..(SampleStock[1] + 1)}
        \cup {<<Item(1, SampleStock[1]), Item(2, 2)>>, <<Item(2, 2), Item(1, SampleStock[1])>>}
CreateNear == \E u \in Users, items \in NearStock : CreateOrder(u, items)

\* The saga of an order placed while other orders hold reservations on
\* product 1.
NextAdmit == NextSaga \/ CreateNear
SpecAdmit == InitReplay /\ [][NextAdmit]_vars

\* The units of a product that are not reserved, as the ledger has them.
Unreserved(p) == inv[p].quantity - inv[p].reserved

\* C21: CreateOrder admits an order only if every item's quantity is within
\* the ledger's quantity - reserved of its product at that time (otherwise it
\* rejects with InsufficientStock), also when earlier orders have reserved or
\* fulfilled units.
C21_AdmittedWithinUnreserved ==
    [][\A u \in Users, items \in ItemLists \cup NearStock :
          CreateOrder(u, items)
              => IF \E i \in DOMAIN items : items[i].quantity > Unreserved(items[i].productId)
                 THEN out'.result = "InsufficientStock" /\ orders' = orders
                 ELSE out'.result = "Created"]_vars

\* Product service, PUT /products/:id with a price: 404 unless the product is
\* there and active, else save the product with the new price and publish
\* product-updated.
UpdateProduct(p, price) ==
    /\ calls < MaxCalls
    /\ calls' = calls + 1
    /\ IF ~KnownProduct(p)
       THEN /\ out' = Out("update-product", p, "get", "NotFound", {})
            /\ UNCHANGED <<products, bus, published>>
       ELSE /\ products' = [products EXCEPT ![p].price = price]
            /\ Publish({}, {Pub("product-updated", 0, p)})
            /\ out' = Out("update-product", p, "save", "OK", {Pub("product-updated", 0, p)})
    /\ UNCHANGED <<inv, orders, userOrders, payments, threads, base, batch, dups, net>>

\* Prices move up or down by a cent.
PriceChange ==
    \E p \in Products \cup {UnknownProduct}, up \in BOOLEAN :
        UpdateProduct(p, IF ~KnownProduct(p) THEN 1
                         ELSE IF up THEN products[p].price + 1
                         ELSE products[p].price - 1)

\* The order saga with the status override while product prices change.
NextPrice == Next \/ PriceChange
SpecPrice == InitSaga /\ [][NextPrice]_vars

\* The sum of unit price times quantity over an order's items.
RECURSIVE LineTotals(_, _)
LineTotals(items, i) ==
    IF i = 0 THEN 0
    ELSE items[i].unitPrice * items[i].quantity + LineTotals(items, i - 1)

\* C22: every persisted order's totalAmount is the sum of its items' line
\* totals as CreateOrder computed them (unit price at validation time times
\* quantity), and once the order is persisted no operation (ProcessPayment,
\* UpdateStatus, CancelOrder, the event handlers, a product price change)
\* changes its totalAmount or its items.
C22_TotalAmountFixed ==
    /\ [](\A o \in OrderIds :
             orders[o].status # "none"
                 => orders[o].totalAmount = LineTotals(orders[o].items, Len(orders[o].items)))
    /\ [][\A o \in OrderIds :
             /\ (orders[o].status = "none" /\ orders'[o].status # "none")
                   => \A i \in DOMAIN orders'[o].items :
                          orders'[o].items[i].unitPrice
                              = products[orders'[o].items[i].productId].price
             /\ orders[o].status # "none"
                   => /\ orders'[o].totalAmount = orders[o].totalAmount
                      /\ orders'[o].items = orders[o].items]_vars

\* A paid order whose product has changed its price since.
C22_Witness ==
    \E o \in OrderIds :
        /\ orders[o].status = CONFIRMED
        /\ \E i \in DOMAIN orders[o].items :
               orders[o].items[i].unitPrice # products[orders[o].items[i].productId].price

\* The completed payments of an order.
CompletedFor(o) ==
    {i \in PaymentIds : payments[i].orderId = o /\ payments[i].status = "completed"}

\* C23: cancelling an order that has a Completed payment triggers a refund
\* as the reaction to order-cancelled, so that the payment ends up Refunded
\* once the refund gateway succeeds.  As a property of the reaction: when
\* the payment service handles order-cancelled for an order that was paid
\* before it was cancelled (its paymentId names a completed payment and no
\* request is in flight), it refunds that payment or starts its refund.
C23_CancelRefundsPayment ==
    [][\A m \in BagToSet(bus) :
          (/\ PaymentOrderCancelled(m)
           /\ NThreads = 0
           /\ orders[m.o].status = CANCELLED
           /\ orders[m.o].paymentId \in CompletedFor(m.o))
              => \A i \in CompletedFor(m.o) :
                     \/ payments'[i].status = "refunded"
                     \/ \E t \in BagToSet(threads') : t.kind = "refund" /\ t.pid = i]_vars

\* History: no reservation was made for order o, nor asked for.
NeverReserved(o) ==
    /\ ~BagIn(Pub("reserve-inventory", o, 0), published)
    /\ \A p \in Products : ~BagIn(Pub("inventory-reserved", o, p), published)

\* C24: inventory is released on cancellation only if the cancelled order
\* held a reservation: the release steps of the reaction to order-cancelled
\* for an order for which no Reserve has succeeded leave reserved of every
\* record unchanged, also when other orders hold reservations on the same
\* products.
C24_ReleaseOnlyReserved ==
    [][\A t \in Running :
          (t.kind = "release" /\ ItemSave(t) /\ NeverReserved(t.o))
              => \A p \in Products : inv'[p].reserved = inv[p].reserved]_vars

\* The calls of POST /payments/process that wait for the gateway's answer
\* about payment i.
AtGateway(i) ==
    {t \in Running : t.kind = "process-payment" /\ t.pc = "gateway" /\ t.pid = i}

PaymentEdges ==
    {<<"none", "processing">>, <<"processing", "completed">>,
     <<"processing", "failed">>, <<"completed", "refunded">>}

\* The calls of POST /payments/:id/refund that wait for the refund gateway.
Refunding == {t \in Running : t.kind = "refund"}

\* C26: a payment's status changes only Processing -> Completed, Processing
\* -> Failed and Completed -> Refunded; Refund is rejected, with the payment
\* unchanged, unless the payment is Completed; the refund amount defaults to
\* the full original amount; every Refunded payment has refundAmount <=
\* amount.
C26_PaymentLifecycle ==
    /\ [](\A i \in PaymentIds :
             payments[i].status = "refunded" => payments[i].refundAmount <= payments[i].amount)
    /\ [][
           /\ \A i \in PaymentIds :
                payments'[i].status # payments[i].status
                    => <<payments[i].status, payments'[i].status>> \in PaymentEdges
           /\ \A i \in PaymentIds, given \in BOOLEAN :
              \A amount \in RefundAmounts(i) :
                RefundGet(i, given, amount)
                    => /\ payments' = payments
                       /\ payments[i].status # "completed"
                             => /\ out'.result \in {"NotFound", "InvalidState"}
                                /\ threads' = threads
                       /\ (payments[i].status = "completed" /\ ~given)
                             => \E t \in Refunding' :
                                    /\ CopiesIn(t, threads') = CopiesIn(t, threads) + 1
                                    /\ t.pid = i /\ t.n = Whole(payments[i].amount)
           /\ \A t \in Refunding :
                (CopiesIn(t, threads') < CopiesIn(t, threads) /\ out'.result = "OK")
                    => /\ payments'[t.pid].status = "refunded"
                       /\ payments'[t.pid].refundAmount = t.n.whole]_vars

\* A payment has been refunded in part.
C26_Witness ==
    \E i \in PaymentIds :
        /\ payments[i].status = "refunded"
        /\ payments[i].refundAmount = 1 /\ payments[i].amount > 1

\* Sequence a is an initial part of sequence b.
IsPrefix(a, b) == Len(a) <= Len(b) /\ SubSeq(b, 1, Len(a)) = a

\* C27: statusNotes is append-only: a successful UpdateStatus with notes adds
\* one entry at the end, and no operation (a concurrent UpdateStatus,
\* ProcessPayment, CancelOrder or event handler that read the order earlier
\* included) removes or reorders an entry.
C27_StatusNotesAppendOnly ==
    [][\A o \in OrderIds :
          /\ IsPrefix(orders[o].statusNotes, orders'[o].statusNotes)
          /\ Len(orders'[o].statusNotes) <= Len(orders[o].statusNotes) + 1]_vars

\* C28: paymentId is set once: it is absent until a payment for the order
\* succeeds (it then names a payment of the order that was approved), and
\* once set no operation changes it.
C28_PaymentIdSetOnce ==
    /\ [](\A o \in OrderIds :
             orders[o].paymentId # 0
                 => /\ payments[orders[o].paymentId].orderId = o
                    /\ payments[orders[o].paymentId].status \in {"completed", "refunded"})
    /\ [][\A o \in OrderIds :
             orders[o].paymentId # 0 => orders'[o].paymentId = orders[o].paymentId]_vars

\* C29: without UpdateStatus no step of the saga is skipped: every order
\* that is Confirmed, Processing or Shipped has its paymentId set, naming a
\* payment of that order that is Completed or Refunded and whose amount is
\* the order's totalAmount.
C29_NoStepSkipped ==
    \A o \in OrderIds :
        orders[o].status \in {CONFIRMED, PROCESSING, SHIPPED}
            => /\ orders[o].paymentId \in PaymentIds
               /\ payments[orders[o].paymentId].orderId = o
               /\ payments[orders[o].paymentId].status \in {"completed", "refunded"}
               /\ payments[orders[o].paymentId].amount = orders[o].totalAmount

\* A shipped order whose payment has been refunded.
C29_Witness ==
    \E o \in OrderIds :
        /\ orders[o].status = SHIPPED
        /\ orders[o].paymentId \in PaymentIds
        /\ payments[orders[o].paymentId].status = "refunded"

\* The step is the reserve-inventory handler getting a refusal for the item
\* it is at.
ReserveRefused(t) ==
    /\ t.kind = "reserve" /\ t.idx > 0 /\ t.pc = "get"
    /\ ItemGet(t)
    /\ out'.result = Rejection("reserve")

\* C30: in the reserve-inventory handler each item's reservation is
\* attempted on its own: a refused Reserve for one item leaves the
\* reservations made for earlier items in place (nothing is released or
\* published) and the handler goes on with the next item; after the last
\* item it acknowledges the event, refusals or not.
C30_ItemsReservedIndependently ==
    [][/\ \A p \in Products : inv'[p].reserved >= inv[p].reserved
       /\ \A t \in Running :
             ReserveRefused(t)
                 => /\ inv' = inv /\ bus' = bus /\ published' = published
                    /\ IF t.idx < Len(t.items)
                       THEN \E u \in BagToSet(threads') :
                                /\ u.kind = "reserve" /\ u.pc = "get"
                                /\ u.o = t.o /\ u.items = t.items /\ u.idx = t.idx + 1
                       ELSE threads' = threads (-) SetToBag({t})]_vars

\* The handler has returned after the item of product 1 was refused, and
\* the two units of product 2 it reserved before are still reserved.
C30_Witness ==
    /\ NThreads = 0
    /\ out.op = "reserve" /\ out.key = 1 /\ out.result = Rejection("reserve")
    /\ \E o \in OrderIds :
          /\ orders[o].status = PROCESSING
          /\ Len(orders[o].items) = 2 /\ orders[o].items[1].productId = 2
          /\ BagIn(Pub("inventory-reserved", o, 2), published)
    /\ inv[2].reserved = 2

\* The saga with the compensation of a cancelled order: order-cancelled and
\* order-shipped are delivered to the inventory service, order-cancelled to
\* the payment service as well.
NextCancel == NextSaga \/ InvCompensate \/ PayCancelled
SpecCancel == InitSaga /\ [][NextCancel]_vars

\* Every event has been delivered and every handler has returned.
AllDelivered == bus = EmptyBag /\ NThreads = 0

\* C31: once all events of a Cancelled order have been delivered, the order
\* holds no reservation, in whatever order CancelOrder, the delivery of
\* reserve-inventory and the delivery of order-cancelled took place: with
\* this order the only one, reserved is 0 for every product.
C31_CancelledHoldsNothing ==
    \A o \in OrderIds :
        (orders[o].status = CANCELLED /\ AllDelivered)
            => \A p \in Products : inv[p].reserved = 0

\* C32: for one order, order-shipped and order-cancelled are never both
\* published, however CancelOrder interleaves with the handler of
\* inventory-reserved.
C32_ShippedXorCancelled ==
    \A o \in OrderIds :
        ~(/\ BagIn(Pub("order-shipped", o, 0), published)
          /\ BagIn(Pub("order-cancelled", o, 0), published))

\* C33: an order is charged at most once: however concurrent ProcessPayment
\* calls for it interleave, at most one of its payment records is Completed.
C33_ChargedAtMostOnce ==
    \A o \in OrderIds : Cardinality(CompletedFor(o)) <= 1

\* ... process-payment after a 200 of the payment service, when the state
\* store or the event bus fails: a throwing state.save leaves the order as
\* it is, a throwing publish comes after the order was saved as confirmed;
\* either way the catch block answers 400 "Payment processing failed".
ProcessPaymentError(t, saved) ==
    /\ t.kind = "process-payment" /\ t.pc = "approved"
    /\ orders' = IF saved THEN [orders EXCEPT ![t.o] = Paid(t.ord, t.pid)] ELSE orders
    /\ threads' = Retire(t)
    /\ out' = Out("process-payment", t.o, "catch", "PaymentFailed", {})
    /\ UNCHANGED <<inv, products, userOrders, payments, bus, published, calls, base, batch, dups, net>>

\* Payment service, POST /payments/process when the publish of
\* payment-completed throws: the record has been saved as completed, and
\* control passes to the catch block.
PaymentPublishError(t) ==
    /\ t.kind = "process-payment" /\ t.pc = "gateway"
    /\ payments' = [payments EXCEPT ![t.pid] = Settled(@, TRUE)]
    /\ threads' = Replace(t, [t EXCEPT !.pc = "catch"])
    /\ out' = Out("payments/process", t.o, "save", "none", {})
    /\ UNCHANGED <<inv, products, orders, userOrders, bus, published, calls,
                   base, batch, dups, net>>

\* The catch block after a failed publish: it saves the record as failed,
\* publishes payment-failed and answers 400.
PaymentCatch(t) ==
    /\ t.kind = "process-payment" /\ t.pc = "catch"
    /\ payments' = [payments EXCEPT ![t.pid] = Settled(@, FALSE)]
    /\ Publish({}, {Pub("payment-failed", t.o, 0)})
    /\ threads' = Replace(t, [t EXCEPT !.pc = "declined"])
    /\ out' = Out("payments/process", t.o, "catch", "PaymentFailed",
                  {Pub("payment-failed", t.o, 0)})
    /\ UNCHANGED <<inv, products, orders, userOrders, calls, base, batch, dups, net>>

\* The saga with a state store and an event bus that may fail under the
\* payment step.
PayError == \E t \in Running, saved \in BOOLEAN : ProcessPaymentError(t, saved)
PayPublishError == \E t \in Running : PaymentPublishError(t)
PayCatch == \E t \in Running : PaymentCatch(t)
NextFault == NextSaga \/ PayError \/ PayPublishError \/ PayCatch
SpecFault == InitSaga /\ [][NextFault]_vars

\* The step is process-payment answering a failure to its caller.
ReportsFailure(t) ==
    /\ t.kind = "process-payment"
    /\ threads' = Retire(t)
    /\ out'.op = "process-payment" /\ out'.result = "PaymentFailed"

\* C34: if ProcessPayment reports failure to its caller, no payment of that
\* attempt is Completed and the order (which nobody else has written since
\* the attempt read it) is still Pending, also when the failure is a
\* state-store save or event publish error after the payment service
\* approved the payment.
C34_FailureMeansNotCharged ==
    [][\A t \in Running :
          (ReportsFailure(t) /\ orders[t.o] = t.ord)
              => /\ t.pid \in PaymentIds => payments'[t.pid].status # "completed"
                 /\ orders'[t.o].status = PENDING]_vars

\* C35: with every published event delivered and the order not cancelled,
\* an order that reaches Processing becomes Shipped; no created and paid
\* order is left in Processing because its reservation was refused.  When
\* all events of an order have been delivered and all handlers have
\* returned, an order that was not cancelled is not in Processing.
C35_ProcessingShips ==
    \A o \in OrderIds :
        (Quiet(o) /\ ~BagIn(Pub("order-cancelled", o, 0), published))
            => orders[o].status # PROCESSING

\* History: order o went through the saga once: it was not cancelled, and
\* reserve-inventory and order-shipped were published once each for it.
WentThroughOnce(o) ==
    /\ CopiesIn(Pub("reserve-inventory", o, 0), published) = 1
    /\ CopiesIn(Pub("order-shipped", o, 0), published) = 1
    /\ ~BagIn(Pub("order-cancelled", o, 0), published)

\* C36: conservation per order: once an order has been paid and shipped and
\* its events have been delivered, once each, the quantity of every item's
\* product has gone down by the item's quantity and its reserved is back at
\* its value before the order (0), however the per-item loops of the
\* reserve-inventory and the order-shipped handler interleave.
C36_ConservationPerOrder ==
    \A o \in OrderIds :
        (orders[o].status = SHIPPED /\ WentThroughOnce(o) /\ AllDelivered)
            => \A i \in DOMAIN orders[o].items :
                  LET p == orders[o].items[i].productId IN
                  /\ inv[p].quantity = SampleStock[p] - orders[o].items[i].quantity
                  /\ inv[p].reserved = 0

\* C37: every payment that completes for an order is recorded in the
\* order's payment index (order-payments-<orderId>), where the listing of
\* the order's payments and the payment service's handler of
\* order-cancelled look for it: once the calls in flight have returned,
\* every completed payment is in the index of its order.
C37_CompletedPaymentIndexed ==
    \A i \in PaymentIds :
        (payments[i].status = "completed" /\ NThreads = 0)
            => \E k \in 1..Len(OrderPayments(payments[i].orderId)) :
                   OrderPayments(payments[i].orderId)[k] = i

\* Order ids for two orders of one user (orderId = uuidv4()).
IndexOrders == {1, 2}

\* POST /orders taken await by await, up to the save of the order: the
\* validation as in CreateOrder, then state.save of the new order under a
\* fresh id.
CreateOrderSave(u, items) ==
    /\ calls < MaxCalls
    /\ calls' = calls + 1
    /\ NThreads < MaxThreads
    /\ LET i == FirstFailing(items)
           free == {o \in DOMAIN orders : orders[o].status = "none"} IN
       IF items = <<>> \/ u \notin Users \/ i # 0
       THEN /\ out' = Out("create", 0, "get", "Rejected", {})
            /\ UNCHANGED <<orders, threads>>
       ELSE /\ free # {}
            /\ orders' = [orders EXCEPT ![Least(free)] = NewOrder(u, items)]
            /\ threads' = Spawn(OrderThread("create", "index-get", Least(free),
                                            NewOrder(u, items)))
            /\ out' = Out("create", Least(free), "save", "none", {})
    /\ UNCHANGED <<inv, products, userOrders, payments, bus, published, base, batch, dups, net>>

\* ... const userOrders = await state.get(ORDER_STORE, userOrdersKey) || []
CreateOrderIndexGet(t) ==
    /\ t.kind = "create" /\ t.pc = "index-get"
    /\ threads' = Replace(t, [t EXCEPT !.pc = "index-save",
                                       !.list = userOrders[t.ord.userId]])
    /\ out' = Out("create", t.o, "index-get", "none", {})
    /\ UNCHANGED <<inv, products, orders, userOrders, payments, bus, published,
                   calls, base, batch, dups, net>>

\* ... userOrders.push(orderId); state.save of the list; publish
\* order-created; 201.
CreateOrderIndexSave(t) ==
    /\ t.kind = "create" /\ t.pc = "index-save"
    /\ userOrders' = [userOrders EXCEPT ![t.ord.userId] = Append(t.list, t.o)]
    /\ Publish({}, {Pub("order-created", t.o, 0)})
    /\ threads' = Retire(t)
    /\ out' = Out("create", t.o, "index-save", "Created", {Pub("order-created", t.o, 0)})
    /\ UNCHANGED <<inv, products, orders, payments, calls, base, batch, dups, net>>

\* Clients place orders for one user, possibly at the same time, while the
\* catalogue's stock follows inventory-updated events.
InitIndex ==
    /\ inv = [p \in Products |->
                 InventoryRecord(SampleStock[p], 0, SampleReorderLevel[p])]
    /\ base = inv
    /\ batch = <<>>
    /\ products = [p \in Products |-> [stock |-> SampleStock[p], price |-> Price[p]]]
    /\ orders = [o \in IndexOrders |-> NoOrder]
    /\ userOrders = [u \in Users |-> <<>>]
    /\ payments = [i \in PaymentIds |-> NoPayment]
    /\ bus = EmptyBag
    /\ published = EmptyBag
    /\ threads = IdleThreads
    /\ out = NoOut
    /\ calls = 0
    /\ dups = 0
    /\ net = [items |-> [p \in Products |-> NoRecord], result |-> "none"]

PlaceOrder ==
    \E u \in Users \cup {UnknownUser}, items \in ItemLists \cup {<<>>} :
        CreateOrderSave(u, items)
PlaceIndexGet == \E t \in Running : CreateOrderIndexGet(t)
PlaceIndexSave == \E t \in Running : CreateOrderIndexSave(t)
NextIndex == PlaceOrder \/ PlaceIndexGet \/ PlaceIndexSave \/ StockUpdated
SpecIndex == InitIndex /\ [][NextIndex]_vars

\* How often order id o occurs in a list of order ids.
Occurrences(list, o) == Cardinality({k \in DOMAIN list : list[k] = o})

\* C38: every persisted order's id appears exactly once in its user's
\* order index (user-orders-<userId>), however concurrent CreateOrder calls
\* of the user interleave: once the calls have returned, each order of the
\* store is in its user's list once.
C38_OrderIndexedOnce ==
    NThreads = 0
        => \A o \in DOMAIN orders :
               orders[o].status # "none"
                   => Occurrences(userOrders[orders[o].userId], o) = 1

\* ---------------------------------------------------------------------------
\* The .NET inventory service (InventoryController.cs) beside the Node.js one.
\* ---------------------------------------------------------------------------

\* [FromBody] ...Request { public int Quantity }: a JSON number with a
\* fractional part does not bind to int, and [ApiController] answers 400
\* before the action runs.
DotnetBinds(n) == n.half = 0

\* if (request.Quantity <= 0) return BadRequest("Valid quantity is required")
DotnetValidQuantity(n) == ~(n.whole <= 0)

\* The guard of each .NET endpoint on the record it has read:
\*   reserve: if (Quantity - Reserved < request.Quantity) BadRequest
\*   release, fulfill: if (Reserved < request.Quantity) BadRequest
DotnetAccepts(op, rec, k) ==
    CASE op = "reserve" -> ~(rec.quantity - rec.reserved < k)
      [] op = "release" -> ~(rec.reserved < k)
      [] op = "fulfill" -> ~(rec.reserved < k)

\* The record each .NET endpoint saves:
\*   reserve: Reserved += q;  release: Reserved -= q;
\*   fulfill: Quantity -= q; Reserved -= q
DotnetApplied(op, rec, k) ==
    CASE op = "reserve" -> [rec EXCEPT !.reserved = @ + k]
      [] op = "release" -> [rec EXCEPT !.reserved = @ - k]
      [] op = "fulfill" -> [rec EXCEPT !.quantity = @ - k, !.reserved = @ - k]

\* One .NET ledger request served from binding to response.
DotnetServed(op, p, n) ==
    IF ~DotnetBinds(n)
    THEN [net EXCEPT !.result = "InvalidRequest"]
    ELSE IF ~DotnetValidQuantity(n)
    THEN [net EXCEPT !.result = "InvalidQuantity"]
    ELSE IF ~DotnetAccepts(op, net.items[p], n.whole)
    THEN [net EXCEPT !.result = Rejection(op)]
    ELSE [items |-> [net.items EXCEPT ![p] = DotnetApplied(op, @, n.whole)],
          result |-> "OK"]

\* One Node.js ledger request served from validation to response, with no
\* other request in flight: the record read is the record updated and saved.
NodeServed(op, p, n) ==
    /\ NThreads = 0
    /\ IF ~ValidQuantity(n)
       THEN /\ out' = Out(op, p, "get", "InvalidQuantity", {})
            /\ UNCHANGED inv
       ELSE IF ~Accepts(op, inv[p], n)
       THEN /\ out' = Out(op, p, "get", Rejection(op), {})
            /\ UNCHANGED inv
       ELSE /\ inv' = [inv EXCEPT ![p] = Applied(op, @, n)]
            /\ out' = Out(op, p, "save", "OK",
                          LedgerEvents(op, 0, p, Applied(op, inv[p], n)))

\* Both services start from the same InventoryRecord.
InitTwin ==
    /\ \E q \in 0..MaxQty, r \in 0..MaxQty :
          /\ r <= q
          /\ inv = [p \in Products |->
                      IF p \in LedgerProducts
                      THEN InventoryRecord(q, r, 1)
                      ELSE InventoryRecord(SampleStock[p], 0, SampleReorderLevel[p])]
    /\ products = [p \in Products |-> [stock |-> SampleStock[p], price |-> Price[p]]]
    /\ orders = [o \in OrderIds |-> NoOrder]
    /\ userOrders = [u \in Users |-> <<>>]
    /\ payments = [i \in PaymentIds |-> NoPayment]
    /\ bus = EmptyBag
    /\ published = EmptyBag
    /\ threads = IdleThreads
    /\ out = NoOut
    /\ calls = 0
    /\ base = inv
    /\ batch = <<>>
    /\ dups = 0
    /\ net = [items |-> inv, result |-> "none"]

\* The same request is sent to both services, one request after another.
TwinCall ==
    \E op \in LedgerOps, p \in LedgerProducts, n \in Numbers :
        /\ NodeServed(op, p, n)
        /\ net' = DotnetServed(op, p, n)
        /\ base' = inv
        /\ batch' = <<[op |-> op, p |-> p, n |-> n]>>
        /\ UNCHANGED <<products, orders, userOrders, payments, bus, published,
                       threads, calls, dups>>

NextTwin == TwinCall
SpecTwin == InitTwin /\ [][NextTwin]_vars

\* C39: started from the same InventoryRecord and given the same sequence of
\* Reserve, Release and Fulfill requests, the Node.js service and the .NET
\* controller accept and reject the same requests and hold the same quantity
\* and reserved after each of them.
C39_SameLedger ==
    batch # <<>> =>
        /\ (out.result = "OK") <=> (net.result = "OK")
        /\ \A p \in LedgerProducts :
              /\ inv[p].quantity = net.items[p].quantity
              /\ inv[p].reserved = net.items[p].reserved

====
